---- MODULE Spec2Model ----
(***************************************************************************)
(* Model of interpolation/interpolation.py: RectangularGrid,              *)
(* BilinearInterpolator and resize_image.                                  *)
(*                                                                         *)
(* Numbers.  Coordinates are fixed-point integers: the integer c stands   *)
(* for the real coordinate c / Unit.  Stored values are integers (pixel   *)
(* samples, the fixtures' 1.0 .. 9.0).  A value computed by a division is *)
(* the exact rational [n, d] in lowest terms with d > 0; d = 0 stands for *)
(* the inf/nan a numpy division by zero produces.  The rounding of IEEE   *)
(* doubles is not modelled: the formulas are evaluated over the           *)
(* rationals.                                                              *)
(***************************************************************************)
EXTENDS Integers, Sequences, FiniteSets, TLC

\* ---------------------------------------------------------------- bounds
MaxCoord == 2
MaxLen == 3
MaxTargetPoints == 2
MaxImageSize == 3
MaxOutSize == 3

\* Python's None.
None == [kind |-> "None"]

\* ------------------------------------------------------------ arithmetic
Abs(n) == IF n < 0 THEN -n ELSE n

RECURSIVE GCD(_, _)
GCD(a, b) == IF b = 0 THEN a ELSE GCD(b, a % b)

RECURSIVE LCMUpTo(_)
LCMUpTo(k) == IF k <= 1 THEN 1
              ELSE LET l == LCMUpTo(k - 1) IN (l * k) \div GCD(l, k)

\* Number of fixed-point subdivisions of one pixel: every step
\* (dimension - 1) / out_size of resize_image is a whole number of them.
Unit == LCMUpTo(MaxOutSize)

\* The quotient n / d as numpy computes it on floats, kept exact.
TrueDiv(n, d) ==
    IF d = 0 THEN [n |-> IF n > 0 THEN 1 ELSE IF n < 0 THEN -1 ELSE 0, d |-> 0]
    ELSE LET g == GCD(Abs(n), Abs(d))
             s == IF d < 0 THEN -1 ELSE 1
         IN  [n |-> (s * n) \div g, d |-> (s * d) \div g]

\* A stored number written into a float array.
ToFloat(v) == [n |-> v, d |-> 1]

\* ------------------------------------------------------ results, errors
Return(v) == [kind |-> "return", value |-> v]
Raise(e) == [kind |-> "raise", error |-> e]

EmptyGridError == [type |-> "ValueError", msg |-> "Empty grid with shape"]
ShapeMismatchError == [type |-> "ValueError", msg |-> "Values and grid shape mismatch"]
NoValuesError == [type |-> "ValueError", msg |-> "Trying to get value from grid with empty values"]
NotFoundError == [type |-> "ValueError", msg |-> "Point not found in grid nodes"]
OutOfBoundsError == [type |-> "ValueError", msg |-> "Point is out of grid bounds"]
NoValuesToConvertError == [type |-> "ValueError", msg |-> "Grid has no values to convert to image"]
UnsupportedAlgorithmError == [type |-> "NotImplementedError", msg |-> "unknown interpolation algorithm"]
ZeroDivisionError == [type |-> "ZeroDivisionError", msg |-> "division by zero"]

\* ---------------------------------------------------------------- numpy
\* a[i] with a 0-based index, negative indices counting from the end.
Item(a, i) == IF i < 0 THEN a[Len(a) + i + 1] ELSE a[i + 1]

\* np.searchsorted(a, v), side="left": binary search for the first index
\* whose element is not below v.
RECURSIVE BinarySearch(_, _, _, _)
BinarySearch(a, v, lo, hi) ==
    IF lo >= hi THEN lo
    ELSE LET mid == lo + ((hi - lo) \div 2)
         IN  IF Item(a, mid) < v THEN BinarySearch(a, v, mid + 1, hi)
             ELSE BinarySearch(a, v, lo, mid)

SearchSorted(a, v) == BinarySearch(a, v, 0, Len(a))

\* np.arange(n): 0, 1, ..., n - 1 (in fixed point).
ARange(n) == [k \in 1..n |-> (k - 1) * Unit]

\* np.arange(0, stop, step): ceil(stop / step) elements 0, step, 2 step, ...
\* stop and step are fixed-point numbers.
ARangeStep(stop, step) ==
    IF step = 0 THEN Raise(ZeroDivisionError)
    ELSE LET len == IF stop <= 0 THEN 0 ELSE ((stop + step - 1) \div step)
         IN  Return([k \in 1..len |-> (k - 1) * step])

\* An array is [shape, dtype, data]; data holds the elements in row-major
\* order.  Elements of a float64 array are rationals, others are integers.
Array2(h, w, dtype, data) ==
    [shape |-> <<h, w>>, dtype |-> dtype, data |-> data]

\* values[iy, ix] of a 2-D array, with 0-based indices.
At(values, iy, ix) == values.data[iy * values.shape[2] + ix + 1]

IndexError == [type |-> "IndexError", msg |-> "index is out of bounds"]

\* values[iy, ix] with numpy's checks: the array has two dimensions and
\* the (non-negative) indices lie within them.
GetItem(values, iy, ix) ==
    IF Len(values.shape) = 2 /\ iy < values.shape[1] /\ ix < values.shape[2]
    THEN Return(At(values, iy, ix))
    ELSE Raise(IndexError)

\* ------------------------------------------------------ RectangularGrid
\* __init__ without the comparison of the shapes.
NewGridUnchecked(points, values) ==
    LET shape == <<Len(points[1]), Len(points[2])>>
    IN  IF shape[1] = 0 \/ shape[2] = 0 THEN Raise(EmptyGridError)
        ELSE Return([points |-> points, shape |-> shape, values |-> values])

\* RectangularGrid.__init__(points, values)
NewGrid(points, values) ==
    LET shape == <<Len(points[1]), Len(points[2])>>
    IN  IF shape[1] = 0 \/ shape[2] = 0 THEN Raise(EmptyGridError)
        ELSE IF values # None /\ values.shape # shape THEN Raise(ShapeMismatchError)
        ELSE Return([points |-> points, shape |-> shape, values |-> values])

\* get_value without the comparison of the coordinates found.
GetValueNearest(g, y, x) ==
    IF g.values = None THEN Raise(NoValuesError)
    ELSE LET iy == SearchSorted(g.points[1], y)
             ix == SearchSorted(g.points[2], x)
         IN  IF ix < Len(g.points[2]) /\ iy < Len(g.points[1])
             THEN Return(At(g.values, iy, ix))
             ELSE Raise(NotFoundError)

\* RectangularGrid.get_value(y, x)
GetValue(g, y, x) ==
    IF g.values = None THEN Raise(NoValuesError)
    ELSE LET iy == SearchSorted(g.points[1], y)
             ix == SearchSorted(g.points[2], x)
         IN  IF /\ ix < Len(g.points[2]) /\ iy < Len(g.points[1])
                /\ Item(g.points[2], ix) = x /\ Item(g.points[1], iy) = y
             THEN GetItem(g.values, iy, ix)
             ELSE Raise(NotFoundError)

\* InBounds with the boundaries left out: strict comparisons.
InBoundsStrict(g, y, x) ==
    /\ Item(g.points[2], 0) < x /\ x < Item(g.points[2], -1)
    /\ Item(g.points[1], 0) < y /\ y < Item(g.points[1], -1)

\* The bounds test of find_bounding_cell.
InBounds(g, y, x) ==
    /\ Item(g.points[2], 0) <= x /\ x <= Item(g.points[2], -1)
    /\ Item(g.points[1], 0) <= y /\ y <= Item(g.points[1], -1)

\* RectangularGrid.find_bounding_cell(y, x): (left, down, right, up)
FindBoundingCell(g, y, x) ==
    IF ~InBounds(g, y, x) THEN Raise(OutOfBoundsError)
    ELSE LET left_bound == SearchSorted(g.points[2], x) - 1
             down_bound == SearchSorted(g.points[1], y) - 1
         IN  Return(<<Item(g.points[2], left_bound),
                      Item(g.points[1], down_bound),
                      Item(g.points[2], left_bound + 1),
                      Item(g.points[1], down_bound + 1)>>)

\* --------------------------------------------------- BilinearInterpolator
\* Line 139: the blend along y on a vertical grid line.
BlendAlongY(q11, q12, y, down, up) ==
    TrueDiv(q11 * (up - y) + q12 * (y - down), up - down)

\* Line 142: the blend along x on a horizontal grid line.
BlendAlongX(q11, q21, x, left, right) ==
    TrueDiv(q11 * (right - x) + q21 * (x - left), right - left)

\* BlendCell with the x weights exchanged.
BlendCellSwapped(q11, q12, q21, q22, y, x, left, down, right, up) ==
    TrueDiv(q11 * (x - left) * (up - y)
              + q21 * (right - x) * (up - y)
              + q12 * (x - left) * (y - down)
              + q22 * (right - x) * (y - down),
            (right - left) * (up - down))

\* BlendCell divided by the cell's width instead of its area.
BlendCellByWidth(q11, q12, q21, q22, y, x, left, down, right, up) ==
    TrueDiv(q11 * (right - x) * (up - y)
              + q21 * (x - left) * (up - y)
              + q12 * (right - x) * (y - down)
              + q22 * (x - left) * (y - down),
            right - left)

\* BlendCell with the last corner subtracted instead of added.
BlendCellMinus(q11, q12, q21, q22, y, x, left, down, right, up) ==
    TrueDiv(q11 * (right - x) * (up - y)
              + q21 * (x - left) * (up - y)
              + q12 * (right - x) * (y - down)
              - q22 * (x - left) * (y - down),
            (right - left) * (up - down))

\* Lines 145-150: the four-corner blend.
BlendCell(q11, q12, q21, q22, y, x, left, down, right, up) ==
    TrueDiv(q11 * (right - x) * (up - y)
              + q21 * (x - left) * (up - y)
              + q12 * (right - x) * (y - down)
              + q22 * (x - left) * (y - down),
            (right - left) * (up - down))

\* The loop body without the tests for a point on a grid line: every point
\* that is not a node goes to the four-corner blend.
InterpolatePointNoLineTest(src, y, x) ==
    LET cell == FindBoundingCell(src, y, x)
    IN  IF cell.kind = "raise" THEN cell
        ELSE
        LET left == cell.value[1]
            down == cell.value[2]
            right == cell.value[3]
            up == cell.value[4]
            r11 == GetValue(src, down, left)
            r12 == GetValue(src, up, left)
            r21 == GetValue(src, down, right)
            r22 == GetValue(src, up, right)
        IN  IF r11.kind = "raise" THEN r11
            ELSE IF r12.kind = "raise" THEN r12
            ELSE IF r21.kind = "raise" THEN r21
            ELSE IF r22.kind = "raise" THEN r22
            ELSE IF right = left /\ up = down
                 THEN LET r == GetValue(src, y, x)
                      IN  IF r.kind = "raise" THEN r ELSE Return(ToFloat(r.value))
            ELSE Return(BlendCell(r11.value, r12.value, r21.value, r22.value,
                                  y, x, left, down, right, up))

\* The body of the double loop of interpolate for one target point.
InterpolatePoint(src, y, x) ==
    LET cell == FindBoundingCell(src, y, x)
    IN  IF cell.kind = "raise" THEN cell
        ELSE
        LET left == cell.value[1]
            down == cell.value[2]
            right == cell.value[3]
            up == cell.value[4]
            r11 == GetValue(src, down, left)
            r12 == GetValue(src, up, left)
            r21 == GetValue(src, down, right)
            r22 == GetValue(src, up, right)
        IN  IF r11.kind = "raise" THEN r11
            ELSE IF r12.kind = "raise" THEN r12
            ELSE IF r21.kind = "raise" THEN r21
            ELSE IF r22.kind = "raise" THEN r22
            ELSE IF right = left /\ up = down
                 THEN LET r == GetValue(src, y, x)
                      IN  IF r.kind = "raise" THEN r ELSE Return(ToFloat(r.value))
            ELSE IF right = left
                 THEN Return(BlendAlongY(r11.value, r12.value, y, down, up))
            ELSE IF up = down
                 THEN Return(BlendAlongX(r11.value, r21.value, x, left, right))
            ELSE Return(BlendCell(r11.value, r12.value, r21.value, r22.value,
                                  y, x, left, down, right, up))

\* BilinearInterpolator(src).interpolate(target): the loop runs over the
\* target rows, then columns, and stops at the first point that raises.
Interpolate(src, target) ==
    LET ys == target.points[1]
        xs == target.points[2]
        r == [iy \in 1..Len(ys) |-> [ix \in 1..Len(xs) |->
                 InterpolatePoint(src, ys[iy], xs[ix])]]
        failed == {p \in (1..Len(ys)) \X (1..Len(xs)) : r[p[1]][p[2]].kind = "raise"}
    IN  IF failed = {}
        THEN Return(Array2(Len(ys), Len(xs), "float64",
                 [k \in 1..(Len(ys) * Len(xs)) |->
                     r[((k - 1) \div Len(xs)) + 1][((k - 1) % Len(xs)) + 1].value]))
        ELSE LET first == CHOOSE p \in failed : \A q \in failed :
                              p[1] < q[1] \/ (p[1] = q[1] /\ p[2] <= q[2])
             IN  r[first[1]][first[2]]

\* ---------------------------------------------------------------- images
\* np.array(image): a (height, width) array for a single-channel image, a
\* (height, width, channels) array for a multi-channel one.
ImageToArray(image) ==
    [shape |-> IF image.mode = "L" THEN <<image.size[2], image.size[1]>>
               ELSE <<image.size[2], image.size[1], 3>>,
     dtype |-> "uint8",
     data |-> image.data]

\* values.astype("uint8") of one element: the fraction of a float is
\* dropped, the integer wraps to 8 bits.
AsUInt8(dtype, v) == IF dtype = "float64" THEN (v.n \div v.d) % 256 ELSE v % 256

\* Image.fromarray(values.astype("uint8")) of a 2-D array.
ImageFromArray(values) ==
    [mode |-> "L",
     size |-> <<values.shape[2], values.shape[1]>>,
     data |-> [k \in 1..Len(values.data) |-> AsUInt8(values.dtype, values.data[k])]]

\* RectangularGrid.from_image(image)
FromImage(image) ==
    LET img_array == ImageToArray(image)
        height == img_array.shape[1]
        width == img_array.shape[2]
        x_coords == ARange(width)
        y_coords == ARange(height)
    IN  NewGrid(<<y_coords, x_coords>>, img_array)

\* RectangularGrid.to_image()
ToImage(g) ==
    IF g.values = None THEN Raise(NoValuesToConvertError)
    ELSE Return(ImageFromArray(g.values))

\* ----------------------------------------------------------- resize_image
\* The outcome of resize_image and the grids the call built (its locals).
Outcome(r, src_grid, res_grid) == [ret |-> r, src_grid |-> src_grid, res_grid |-> res_grid]

\* Lines 341-348: res_grid.values = ...; return res_grid.to_image()
ResizeConvert(src_grid, res_grid, values) ==
    IF values.kind = "raise" THEN Outcome(values, src_grid, res_grid)
    ELSE LET filled == [res_grid EXCEPT !.values = values.value]
         IN  Outcome(ToImage(filled), src_grid, filled)

\* Lines 338-343: the branch on the algorithm.
ResizeInterpolate(src_grid, y_grid, x_grid, algorithm) ==
    IF algorithm = "bilinear"
    THEN LET res == NewGrid(<<y_grid, x_grid>>, None)
         IN  IF res.kind = "raise" THEN Outcome(res, src_grid, None)
             ELSE ResizeConvert(src_grid, res.value, Interpolate(src_grid, res.value))
    ELSE Outcome(Raise(UnsupportedAlgorithmError), src_grid, None)

\* Lines 334-335: the target coordinates, y before x.
ResizeTarget(src_grid, y_grid, x_grid, algorithm) ==
    IF y_grid.kind = "raise" THEN Outcome(y_grid, src_grid, None)
    ELSE IF x_grid.kind = "raise" THEN Outcome(x_grid, src_grid, None)
    ELSE ResizeInterpolate(src_grid, y_grid.value, x_grid.value, algorithm)

\* The step (dimension - 1) / size and the array np.arange(0, dimension - 1, step).
TargetCoords(dimension, size) ==
    ARangeStep((dimension - 1) * Unit, ((dimension - 1) * Unit) \div size)

\* resize_image(image, y_size, x_size, algorithm)
ResizeImage(image, y_size, x_size, algorithm) ==
    LET src == FromImage(image)
    IN  IF src.kind = "raise" THEN Outcome(src, None, None)
        ELSE ResizeTarget(src.value,
                          TargetCoords(image.size[2], y_size),
                          TargetCoords(image.size[1], x_size),
                          algorithm)

\* ----------------------------------------------------------------- inputs
RECURSIVE SortedSeq(_)
SortedSeq(S) ==
    IF S = {} THEN <<>>
    ELSE LET m == CHOOSE a \in S : \A b \in S : a <= b
         IN  <<m>> \o SortedSeq(S \ {m})

\* Strictly ascending sequences over S with lo..hi elements.
Ascending(S, lo, hi) ==
    {SortedSeq(T) : T \in {U \in SUBSET S : lo <= Cardinality(U) /\ Cardinality(U) <= hi}}

\* Coordinate arrays handed to the constructor (the empty one included).
CoordArrays == Ascending(0..MaxCoord, 0, MaxLen)

\* Coordinates asked for: every grid coordinate, and one step beyond.
Points == (-1)..(MaxCoord + 1)

\* Coordinate arrays (y, x) of a target grid of at most MaxTargetPoints points.
TargetPoints ==
    {t \in Ascending(Points, 1, MaxTargetPoints) \X Ascending(Points, 1, MaxTargetPoints) :
        Len(t[1]) * Len(t[2]) <= MaxTargetPoints}

\* Sample values of node (i, j) of a grid w wide: "row_major" numbers the
\* nodes row by row from 1, as the test fixtures do; "mixed" is neither
\* monotone nor linear.
SampleKinds == {"row_major", "mixed"}

SampleValue(p, i, j, w) ==
    IF p = "row_major" THEN i * w + j + 1
    ELSE ((i + 2 * j) * (i + 2 * j) * 7 + 3 * i) % 11

SampleArray(p, h, w) ==
    Array2(h, w, "int64",
           [k \in 1..(h * w) |-> SampleValue(p, (k - 1) \div w, (k - 1) % w, w)])

\* Value arrays handed to the constructor: 2-D ones of every shape, and
\* 1-D ones.
ValueArrays ==
    {SampleArray(p, h, w) : p \in SampleKinds, h \in 1..MaxLen, w \in 1..MaxLen}
      \cup {[shape |-> <<n>>, dtype |-> "int64", data |-> [k \in 1..n |-> k]] : n \in 1..MaxLen}

\* Images: single-channel ("L") and three-channel ("RGB"); data holds the
\* samples row by row, the channels of a pixel side by side.
Images ==
    {[mode |-> "L", size |-> <<w, h>>,
      data |-> [k \in 1..(h * w) |-> SampleValue(p, (k - 1) \div w, (k - 1) % w, w)]] :
        p \in SampleKinds, w \in 1..MaxImageSize, h \in 1..MaxImageSize}
      \cup
    {[mode |-> "RGB", size |-> <<w, h>>,
      data |-> [k \in 1..(h * w * 3) |->
                  (SampleValue(p, ((k - 1) \div 3) \div w, ((k - 1) \div 3) % w, w)
                     + ((k - 1) % 3)) % 256]] :
        p \in SampleKinds, w \in 1..MaxImageSize, h \in 1..MaxImageSize}

Algorithms == {"bilinear", "bicubic"}

\* ------------------------------------------------------------ the state
\* A program run: it constructs a grid, or resizes an image, and after a
\* call that returned it goes on with further calls on the grid.  A call
\* that raises ends the run (nothing in the library catches an exception).
\*
\* grid:  the RectangularGrid the program holds (the interpolator's
\*        src_grid), None before it is constructed
\* frame: the grids the running resize_image call built
\* call:  the call made last and its arguments, Idle between calls
\* ret:   what that call returned or raised
\* cli:   the run of the command-line "resize" command: its position, its
\*        arguments, the image it opened, the file it saved, what it
\*        printed and how it ended; NoCli when the library is used directly
VARIABLES grid, frame, call, ret, cli

vars == <<grid, frame, call, ret, cli>>

NoFrame == [src_grid |-> None, res_grid |-> None]

NoCli == [pc |-> "none"]

Idle == [op |-> "none"]

Init ==
    /\ grid = None
    /\ frame = NoFrame
    /\ call = Idle
    /\ ret = None
    /\ cli = NoCli

\* grid = RectangularGrid((y_coords, x_coords), values)
Construct(y_coords, x_coords, values) ==
    /\ call = Idle
    /\ grid = None
    /\ LET r == NewGrid(<<y_coords, x_coords>>, values)
       IN  /\ grid' = IF r.kind = "return" THEN r.value ELSE None
           /\ ret' = IF r.kind = "return" THEN Return(None) ELSE r
    /\ call' = [op |-> "__init__", points |-> <<y_coords, x_coords>>, values |-> values]
    /\ UNCHANGED frame

\* grid = RectangularGrid.from_image(image)
ConstructFromImage(image) ==
    /\ call = Idle
    /\ grid = None
    /\ LET r == FromImage(image)
       IN  /\ grid' = IF r.kind = "return" THEN r.value ELSE None
           /\ ret' = IF r.kind = "return" THEN Return(None) ELSE r
    /\ call' = [op |-> "from_image", image |-> image]
    /\ UNCHANGED frame

\* grid.get_value(y, x)
CallGetValue(y, x) ==
    /\ call = Idle
    /\ grid # None
    /\ ret' = GetValue(grid, y, x)
    /\ call' = [op |-> "get_value", y |-> y, x |-> x]
    /\ UNCHANGED <<grid, frame>>

\* grid.find_bounding_cell(y, x)
CallFindBoundingCell(y, x) ==
    /\ call = Idle
    /\ grid # None
    /\ ret' = FindBoundingCell(grid, y, x)
    /\ call' = [op |-> "find_bounding_cell", y |-> y, x |-> x]
    /\ UNCHANGED <<grid, frame>>

\* BilinearInterpolator(grid).interpolate(RectangularGrid((ty, tx)))
CallInterpolate(ty, tx) ==
    /\ call = Idle
    /\ grid # None
    /\ ret' = Interpolate(grid, NewGrid(<<ty, tx>>, None).value)
    /\ call' = [op |-> "interpolate", points |-> <<ty, tx>>]
    /\ UNCHANGED <<grid, frame>>

\* grid.to_image()
CallToImage ==
    /\ call = Idle
    /\ grid # None
    /\ ret' = ToImage(grid)
    /\ call' = [op |-> "to_image"]
    /\ UNCHANGED <<grid, frame>>

\* resize_image(image, y_size, x_size, algorithm)
CallResizeImage(image, y_size, x_size, algorithm) ==
    /\ call = Idle
    /\ grid = None
    /\ LET r == ResizeImage(image, y_size, x_size, algorithm)
       IN  /\ ret' = r.ret
           /\ frame' = [src_grid |-> r.src_grid, res_grid |-> r.res_grid]
    /\ call' = [op |-> "resize_image", image |-> image, y_size |-> y_size,
                x_size |-> x_size, algorithm |-> algorithm]
    /\ UNCHANGED grid

\* The call returned: the program goes on; the locals of the call are gone.
Continue ==
    /\ call # Idle
    /\ ret.kind = "return"
    /\ call' = Idle
    /\ ret' = None
    /\ frame' = NoFrame
    /\ UNCHANGED grid

\* What the program may do next: the first call of a run builds a grid or
\* resizes an image, the later ones use the grid.
Fresh == call = Idle /\ grid = None

Ready == call = Idle /\ grid # None

Next ==
    \/ /\ Fresh
       /\ UNCHANGED cli
       /\ \E y_coords \in CoordArrays, x_coords \in CoordArrays, values \in ValueArrays \cup {None} :
             Construct(y_coords, x_coords, values)
    \/ /\ Fresh
       /\ UNCHANGED cli
       /\ \E image \in Images : ConstructFromImage(image)
    \/ /\ Ready
       /\ UNCHANGED cli
       /\ \E y \in Points, x \in Points : CallGetValue(y, x)
    \/ /\ Ready
       /\ UNCHANGED cli
       /\ \E y \in Points, x \in Points : CallFindBoundingCell(y, x)
    \/ /\ Ready
       /\ UNCHANGED cli
       /\ \E t \in TargetPoints : CallInterpolate(t[1], t[2])
    \/ /\ Ready
       /\ UNCHANGED cli
       /\ CallInterpolate(grid.points[1], grid.points[2])
    \/ /\ CallToImage
       /\ UNCHANGED cli
    \/ /\ Fresh
       /\ UNCHANGED cli
       /\ \E image \in Images, y_size \in 1..MaxOutSize, x_size \in 1..MaxOutSize,
             algorithm \in Algorithms : CallResizeImage(image, y_size, x_size, algorithm)
    \/ /\ Continue
       /\ UNCHANGED cli

Spec == Init /\ [][Next]_vars

\* ------------------------------------------------- values, assigned later
\* grid.values = values: values is a plain attribute, the assignment
\* checks nothing.
SetValues(g, values) == [g EXCEPT !.values = values]

AssignValues(values) ==
    /\ call = Idle
    /\ grid # None
    /\ grid' = SetValues(grid, values)
    /\ ret' = Return(None)
    /\ call' = [op |-> "set_values", values |-> values]
    /\ UNCHANGED frame

\* The runs of a program that also assigns values to the grid it holds.
NextAssign ==
    \/ /\ Fresh
       /\ UNCHANGED cli
       /\ \E y_coords \in CoordArrays, x_coords \in CoordArrays, values \in ValueArrays \cup {None} :
             Construct(y_coords, x_coords, values)
    \/ /\ Fresh
       /\ UNCHANGED cli
       /\ \E image \in Images : ConstructFromImage(image)
    \/ /\ Ready
       /\ UNCHANGED cli
       /\ \E values \in ValueArrays : AssignValues(values)
    \/ /\ Ready
       /\ UNCHANGED cli
       /\ CallInterpolate(grid.points[1], grid.points[2])
    \/ /\ Fresh
       /\ UNCHANGED cli
       /\ \E image \in Images, y_size \in 1..MaxOutSize, x_size \in 1..MaxOutSize,
             algorithm \in Algorithms : CallResizeImage(image, y_size, x_size, algorithm)
    \/ /\ Continue
       /\ UNCHANGED cli

SpecAssign == Init /\ [][NextAssign]_vars

\* ------------------------------------------------------------ cli.resize
\* The command "interpolation resize INPUT OUTPUT --width W --height H
\* [--algorithm A]".  The file at INPUT holds an image; the run goes
\* through the statements of the callback one at a time.

\* type=click.Choice(["bilinear"]) of --algorithm
Choices == {"bilinear"}

BadChoiceError == [type |-> "click.BadParameter", msg |-> "Invalid value for '--algorithm'"]

BadParameterError ==
    [type |-> "click.BadParameter", msg |-> "Width and height must be positive integers"]

\* The exit code of the process: 2 for a click usage error, 1 for any
\* other exception, which click does not catch.
ExitCode(error) == IF error.type = "click.BadParameter" THEN 2 ELSE 1

\* The run ends with an exception.
CliFail(error) ==
    [cli EXCEPT !.pc = "done", !.error = error, !.exit_code = ExitCode(error)]

\* Widths and heights given on the command line.
CliSizes == (-1)..MaxOutSize

\* The command is invoked: click parses the options, then calls resize.
CliInvoke(input, width, height, algorithm) ==
    /\ cli = NoCli
    /\ call = Idle
    /\ grid = None
    /\ LET run == [pc |-> "validate", input |-> input, width |-> width, height |-> height,
                   algorithm |-> algorithm, img |-> None, result |-> None,
                   output |-> None, stdout |-> <<>>, error |-> None, exit_code |-> None]
       IN  cli' = IF algorithm \in Choices THEN run
                  ELSE [run EXCEPT !.pc = "done", !.error = BadChoiceError,
                                   !.exit_code = ExitCode(BadChoiceError)]
    /\ UNCHANGED <<grid, frame, call, ret>>

\* The test of the dimensions, without the test of the height.
ValidDimensionsWidthOnly(width, height) == ~(width <= 0)

\* if width <= 0 or height <= 0: raise click.BadParameter(...)
ValidDimensions(width, height) == ~(width <= 0 \/ height <= 0)

CliValidate ==
    /\ cli.pc = "validate"
    /\ cli' = IF ValidDimensions(cli.width, cli.height) THEN [cli EXCEPT !.pc = "open"]
              ELSE CliFail(BadParameterError)
    /\ UNCHANGED <<grid, frame, call, ret>>

\* with Image.open(input_path) as img:
CliOpen ==
    /\ cli.pc = "open"
    /\ cli' = [cli EXCEPT !.pc = "resize", !.img = cli.input]
    /\ UNCHANGED <<grid, frame, call, ret>>

\* result = resize_image(img, y_size=width, x_size=height, algorithm=algorithm)
CliResize ==
    /\ cli.pc = "resize"
    /\ CallResizeImage(cli.img, cli.width, cli.height, cli.algorithm)
    /\ cli' = IF ret'.kind = "return"
              THEN [cli EXCEPT !.pc = "save", !.result = ret'.value]
              ELSE CliFail(ret'.error)

\* result.save(output_path)
CliSave ==
    /\ cli.pc = "save"
    /\ cli' = [cli EXCEPT !.pc = "echo", !.output = cli.result]
    /\ UNCHANGED <<grid, frame, call, ret>>

\* click.echo(f"Saved to {output_path}"), and the command returns.
CliEcho ==
    /\ cli.pc = "echo"
    /\ cli' = [cli EXCEPT !.pc = "done", !.stdout = Append(cli.stdout, "Saved to"),
                          !.exit_code = 0]
    /\ UNCHANGED <<grid, frame, call, ret>>

NextCli ==
    \/ /\ cli = NoCli
       /\ \E input \in Images, width \in CliSizes, height \in CliSizes,
             algorithm \in Algorithms : CliInvoke(input, width, height, algorithm)
    \/ CliValidate
    \/ CliOpen
    \/ CliResize
    \/ CliSave
    \/ CliEcho

\* The statements of the callback run one after the other: a run that has
\* reached the test of the dimensions, the opening of the image, the save
\* or the echo executes it.  Nothing is assumed about the time resize_image
\* takes.
SpecCli ==
    /\ Init
    /\ [][NextCli]_vars
    /\ WF_vars(CliValidate)
    /\ WF_vars(CliOpen)
    /\ WF_vars(CliSave)
    /\ WF_vars(CliEcho)

\* ================================================================ claims
\* The grid's coordinate arrays and the arguments of the call made last.
Ys == grid.points[1]

Xs == grid.points[2]

Called(op) == call.op = op

HasValues == grid.values # None

IsNodeY(y) == \E i \in 1..Len(Ys) : Ys[i] = y

IsNodeX(x) == \E j \in 1..Len(Xs) : Xs[j] = x

\* The stored value of the node with coordinates (y, x).
NodeValue(y, x) ==
    LET i == CHOOSE k \in 1..Len(Ys) : Ys[k] = y
        j == CHOOSE k \in 1..Len(Xs) : Xs[k] = x
    IN  grid.values.data[(i - 1) * Len(Xs) + j]

\* (y, x) lies outside the span of the grid's coordinates.
Outside(y, x) ==
    \/ x < Xs[1] \/ x > Xs[Len(Xs)]
    \/ y < Ys[1] \/ y > Ys[Len(Ys)]

\* The target coordinates of an interpolate call, and its output at (iy, ix).
TargetYs == call.points[1]

TargetXs == call.points[2]

Output(iy, ix) == ret.value.data[(iy - 1) * Len(TargetXs) + ix]

\* The float f is the rational n / d.
IsQuotient(f, n, d) == f.d # 0 /\ f.n * d = n * f.d

Floor(a, v) == CHOOSE c \in {a[k] : k \in 1..Len(a)} :
                   c <= v /\ \A k \in 1..Len(a) : a[k] <= v => a[k] <= c

Ceil(a, v) == CHOOSE c \in {a[k] : k \in 1..Len(a)} :
                  c >= v /\ \A k \in 1..Len(a) : a[k] >= v => a[k] >= c

\* The reference bilinear value at an in-bounds point (y, x), as numerator
\* and denominator.
Reference(y, x) ==
    LET y0 == Floor(Ys, y)
        y1 == Ceil(Ys, y)
        x0 == Floor(Xs, x)
        x1 == Ceil(Xs, x)
    IN  IF x0 = x1 /\ y0 = y1 THEN <<NodeValue(y, x), 1>>
        ELSE IF x0 = x1
             THEN <<NodeValue(y0, x) * (y1 - y) + NodeValue(y1, x) * (y - y0), y1 - y0>>
        ELSE IF y0 = y1
             THEN <<NodeValue(y, x0) * (x1 - x) + NodeValue(y, x1) * (x - x0), x1 - x0>>
        ELSE <<NodeValue(y0, x0) * (x1 - x) * (y1 - y)
                 + NodeValue(y0, x1) * (x - x0) * (y1 - y)
                 + NodeValue(y1, x0) * (x1 - x) * (y - y0)
                 + NodeValue(y1, x1) * (x - x0) * (y - y0),
               (x1 - x0) * (y1 - y0)>>

\* C2: at every in-bounds target point interpolate writes the reference
\* bilinear value: the node's value on a node, the linear blend of the two
\* enclosing nodes on a grid line, the area-weighted blend of the four
\* corners inside a cell.
C2_ReferenceValue ==
    (Called("interpolate") /\ HasValues) =>
        /\ (\A iy \in 1..Len(TargetYs), ix \in 1..Len(TargetXs) :
               ~Outside(TargetYs[iy], TargetXs[ix]))
             => ret.kind = "return"
        /\ ret.kind = "return" =>
             \A iy \in 1..Len(TargetYs), ix \in 1..Len(TargetXs) :
                 LET ref == Reference(TargetYs[iy], TargetXs[ix])
                 IN  IsQuotient(Output(iy, ix), ref[1], ref[2])

\* C2 witness: on y = x = [0, 1, 2] with the values 1..9 the point
\* (0.5, 0.5) has been given the value 3.
C2_Witness ==
    /\ Called("interpolate") /\ HasValues
    /\ grid.points = <<ARange(3), ARange(3)>>
    /\ grid.values.data = <<1, 2, 3, 4, 5, 6, 7, 8, 9>>
    /\ call.points = <<<<Unit \div 2>>, <<Unit \div 2>>>>
    /\ ret = Return([shape |-> <<1, 1>>, dtype |-> "float64", data |-> <<[n |-> 3, d |-> 1]>>])

\* C3: find_bounding_cell raises the out-of-bounds error exactly for the
\* points outside the span of the coordinates (the first and the last
\* coordinate are inside), and interpolate on a target with such a point
\* raises, with that error when the source has values, and returns no
\* array.
C3_OutOfBounds ==
    /\ Called("find_bounding_cell") =>
          IF Outside(call.y, call.x) THEN ret = Raise(OutOfBoundsError)
          ELSE ret.kind = "return"
    /\ (/\ Called("interpolate")
        /\ \E iy \in 1..Len(TargetYs), ix \in 1..Len(TargetXs) :
              Outside(TargetYs[iy], TargetXs[ix]))
         => /\ ret.kind = "raise"
            /\ HasValues => ret = Raise(OutOfBoundsError)

\* C3 witness: interpolate has raised the out-of-bounds error on a target
\* whose first point is a source node and whose second point is outside.
C3_Witness ==
    /\ Called("interpolate") /\ HasValues
    /\ Len(TargetYs) = 1 /\ Len(TargetXs) = 2
    /\ ~Outside(TargetYs[1], TargetXs[1])
    /\ Outside(TargetYs[1], TargetXs[2])
    /\ ret = Raise(OutOfBoundsError)


\* C4: find_bounding_cell returns a cell collapsed on an axis whenever the
\* point's coordinate on that axis is one of the grid's coordinates.
C4_CellCollapsesOnNodes ==
    (Called("find_bounding_cell") /\ ret.kind = "return") =>
        /\ IsNodeX(call.x) => (ret.value[1] = call.x /\ ret.value[3] = call.x)
        /\ IsNodeY(call.y) => (ret.value[2] = call.y /\ ret.value[4] = call.y)

\* a and b are the same entry or neighbouring entries of the array c.
SameOrNext(c, a, b) ==
    \E k \in 1..Len(c) : c[k] = a /\ (b = a \/ (k < Len(c) /\ c[k + 1] = b))

\* C5: the cell find_bounding_cell returns encloses the point, between the
\* same or neighbouring coordinates on each axis.
C5_CellEnclosesPoint ==
    (Called("find_bounding_cell") /\ ret.kind = "return") =>
        /\ ret.value[1] <= call.x /\ call.x <= ret.value[3]
        /\ ret.value[2] <= call.y /\ call.y <= ret.value[4]
        /\ SameOrNext(Xs, ret.value[1], ret.value[3])
        /\ SameOrNext(Ys, ret.value[2], ret.value[4])

\* The values of the four corners of the source cell (i, j), (i+1, j+1).
Corners(i, j) ==
    {grid.values.data[(a - 1) * Len(Xs) + b] : a \in {i, i + 1}, b \in {j, j + 1}}

\* C6: at a target point strictly inside a source cell the interpolated
\* value lies between the smallest and the largest of the four corner
\* values.
C6_ConvexCombination ==
    (Called("interpolate") /\ HasValues /\ ret.kind = "return") =>
        \A iy \in 1..Len(TargetYs), ix \in 1..Len(TargetXs) :
            \A i \in 1..(Len(Ys) - 1), j \in 1..(Len(Xs) - 1) :
                (/\ Ys[i] < TargetYs[iy] /\ TargetYs[iy] < Ys[i + 1]
                 /\ Xs[j] < TargetXs[ix] /\ TargetXs[ix] < Xs[j + 1])
                  => LET f == Output(iy, ix)
                     IN  /\ f.d > 0
                         /\ \E c \in Corners(i, j) : c * f.d <= f.n
                         /\ \E c \in Corners(i, j) : f.n <= c * f.d

\* C6 witness: a point strictly inside a cell has been given a value
\* strictly between the smallest and the largest corner.
C6_Witness ==
    /\ Called("interpolate") /\ HasValues /\ ret.kind = "return"
    /\ Len(Ys) > 1 /\ Len(Xs) > 1
    /\ Ys[1] < TargetYs[1] /\ TargetYs[1] < Ys[2]
    /\ Xs[1] < TargetXs[1] /\ TargetXs[1] < Xs[2]
    /\ \E c \in Corners(1, 1) : c * Output(1, 1).d < Output(1, 1).n
    /\ \E c \in Corners(1, 1) : Output(1, 1).n < c * Output(1, 1).d

\* C7: get_value returns the stored value of the node (y, x), raises the
\* not-found error when the grid has values and (y, x) is no node, and
\* raises the no-values error whenever the grid has no values.
C7_GetValue ==
    Called("get_value") =>
        IF ~HasValues THEN ret = Raise(NoValuesError)
        ELSE IF IsNodeY(call.y) /\ IsNodeX(call.x)
             THEN ret = Return(NodeValue(call.y, call.x))
        ELSE ret = Raise(NotFoundError)

\* C7 witness: get_value has returned the value of the last node of a
\* 3 x 3 grid.
C7_Witness ==
    /\ Called("get_value") /\ HasValues
    /\ grid.shape = <<3, 3>>
    /\ call.y = Ys[3] /\ call.x = Xs[3]
    /\ ret = Return(grid.values.data[9])

\* C8: the constructor raises the shape error when a coordinate array is
\* empty or the values' shape is not (len(y_coords), len(x_coords)), and
\* no grid comes to exist; otherwise it succeeds and the grid's shape is
\* (len(y_coords), len(x_coords)).
C8_Construction ==
    Called("__init__") =>
        LET shape == <<Len(call.points[1]), Len(call.points[2])>>
        IN  IF \/ shape[1] = 0 \/ shape[2] = 0
               \/ (call.values # None /\ call.values.shape # shape)
            THEN /\ ret \in {Raise(EmptyGridError), Raise(ShapeMismatchError)}
                 /\ grid = None
            ELSE /\ ret.kind = "return"
                 /\ grid # None
                 /\ grid.shape = shape

\* C8 witness: the constructor has rejected values whose shape differs
\* from that of non-empty coordinate arrays.
C8_Witness ==
    /\ Called("__init__")
    /\ Len(call.points[1]) > 0 /\ Len(call.points[2]) > 0
    /\ call.values # None
    /\ ret = Raise(ShapeMismatchError)

\* C9: from_image succeeds on every image, single-channel or
\* multi-channel, and builds the grid with the coordinates 0..height-1 and
\* 0..width-1, the shape (height, width) and the pixel samples as values.
C9_FromImage ==
    Called("from_image") =>
        LET width == call.image.size[1]
            height == call.image.size[2]
        IN  /\ ret.kind = "return"
            /\ grid # None
            /\ grid.points = <<[k \in 1..height |-> (k - 1) * Unit],
                               [k \in 1..width |-> (k - 1) * Unit]>>
            /\ grid.shape = <<height, width>>
            /\ grid.values.data = call.image.data

\* C10: resize_image with "bilinear" succeeds on every single-channel
\* image and returns an image of y_size rows and x_size columns.
C10_ResizeSucceeds ==
    (Called("resize_image") /\ call.image.mode = "L" /\ call.algorithm = "bilinear") =>
        /\ ret.kind = "return"
        /\ ret.value.size = <<call.x_size, call.y_size>>
        /\ Len(ret.value.data) = call.x_size * call.y_size

\* C11: resize_image with an algorithm name other than "bilinear" fails
\* with the unsupported-algorithm error and no other one, whatever the
\* image and the sizes; only the source grid is built: no target grid, no
\* interpolation, no conversion to pixels.
C11_UnsupportedAlgorithm ==
    (Called("resize_image") /\ call.algorithm # "bilinear") =>
        /\ ret = Raise(UnsupportedAlgorithmError)
        /\ frame.src_grid # None
        /\ frame.res_grid = None

\* C12: the resize command run with --width W and --height H, both
\* positive, passes H as y_size and W as x_size to resize_image, and the
\* image it saves is W pixels wide and H pixels tall.
C12_CliDimensions ==
    /\ (cli.pc # "none" /\ Called("resize_image")) =>
            (call.y_size = cli.height /\ call.x_size = cli.width)
    /\ (cli.pc # "none" /\ cli.output # None) =>
            cli.output.size = <<cli.width, cli.height>>

\* A run of the command with a width or a height that is not positive.
InvalidDimensions == cli.pc # "none" /\ (cli.width <= 0 \/ cli.height <= 0)

\* Such a run has opened no image, called no resize_image, saved and
\* printed nothing, and once ended it has failed on the parameters.
NoInputOutput ==
    InvalidDimensions =>
        /\ cli.img = None
        /\ ~Called("resize_image")
        /\ cli.output = None
        /\ cli.stdout = <<>>
        /\ cli.pc = "done" => (cli.error # None /\ cli.error.type = "click.BadParameter"
                                 /\ cli.exit_code # 0)

\* "Saved to" is on the output only when the result has been saved.
SavedBeforeEcho == (cli.pc # "none" /\ cli.stdout # <<>>) => cli.output # None

\* C13: a run of the resize command with width <= 0 or height <= 0 ends
\* with a parameter-validation error and a non-zero exit code; in that run
\* the image is never opened, resize_image is never called, nothing is
\* saved and "Saved to" is never printed; and in every run "Saved to" is
\* printed only after the result has been saved.
C13_ValidationBeforeIO ==
    /\ [](NoInputOutput /\ SavedBeforeEcho)
    /\ (InvalidDimensions ~> (cli.pc = "done" /\ cli.exit_code = 2))

\* A run with a valid algorithm and a height of 0 has been refused by the
\* callback.
C13_Witness ==
    /\ cli.pc = "done"
    /\ cli.algorithm \in Choices
    /\ cli.width > 0 /\ cli.height <= 0
    /\ cli.error = BadParameterError
    /\ cli.exit_code = 2

\* The values of grid g, when it exists and has any, have its shape.
ShapeMatches(g) ==
    \/ g = None
    \/ g.values = None
    \/ g.values.shape = <<Len(g.points[1]), Len(g.points[2])>>

\* C14: whatever the grid operations made so far (construction, from_image,
\* assignment of values, interpolate, resize_image), every grid that has
\* values has them in the shape (len(y_coords), len(x_coords)), and an
\* attempt to give a grid values of another shape is rejected.
C14_ValuesShape ==
    /\ ShapeMatches(grid) /\ ShapeMatches(frame.src_grid) /\ ShapeMatches(frame.res_grid)
    /\ (Called("__init__") /\ call.values # None
          /\ call.values.shape # <<Len(call.points[1]), Len(call.points[2])>>)
            => ret.kind = "raise"
    /\ (Called("set_values") /\ call.values.shape # grid.shape) => ret.kind = "raise"

\* No element of a float64 array is the result of a division by zero.
NoZeroDivision(values) == \A k \in 1..Len(values.data) : values.data[k].d # 0

\* C15: on a source grid with strictly ascending coordinates (a single
\* coordinate on an axis included) and in-bounds target points (the first
\* and last coordinates included), interpolate never divides by a zero
\* (up - down), (right - left) or (right - left) * (up - down): the branch
\* for the degenerate case is taken before the formula that divides.
C15_NoDivisionByZero ==
    /\ (Called("interpolate") /\ ret.kind = "return") => NoZeroDivision(ret.value)
    /\ (frame.res_grid # None /\ frame.res_grid.values # None) =>
            NoZeroDivision(frame.res_grid.values)

\* interpolate returned on a grid with a single coordinate on one axis and
\* several on the other, for a target point on the first coordinate of
\* the latter that is not a node.
C15_Witness ==
    /\ Called("interpolate") /\ ret.kind = "return"
    /\ Len(Xs) = 1 /\ Len(Ys) > 1
    /\ \E iy \in 1..Len(TargetYs) : TargetYs[iy] = Ys[1]
    /\ \E iy \in 1..Len(TargetYs) : Ys[1] < TargetYs[iy] /\ TargetYs[iy] < Ys[2]

====
